---- MODULE Spec2Model ----
(***************************************************************************)
(* Model of the external scanner of the Parsley tree-sitter grammar        *)
(* (contrib/tree-sitter-parsley/src/scanner.c).                            *)
(*                                                                         *)
(* The scanner holds one state byte (raw_text_mode).  The host creates it, *)
(* serializes and deserializes it, and calls scan at a cursor of the input *)
(* with the set of token kinds the grammar accepts there.  A scan call is  *)
(* modelled step by step: one action for the controller, one action for    *)
(* each branch of one iteration of the loop of scan_raw_text.              *)
(*                                                                         *)
(* Characters are one-character strings; the input is a sequence of them.  *)
(* Positions are offsets: 0 is the start of the input, Len(input) its end. *)
(***************************************************************************)
EXTENDS Integers, Sequences, FiniteSets, TLC

VARIABLES
    input,          \* the text the lexer reads
    char_signed,    \* whether plain char is signed in this build
    raw_text_mode,  \* Scanner.raw_text_mode (uint8_t)
    buffer,         \* the host's checkpoint buffer (sequence of char values)
    ser_of,         \* <<v>> when serialize wrote the buffer from state value v, else <<>>
    deser_len,      \* <<n>> right after deserialize was called with length n, else <<>>
    cursor,         \* the host's position: where the next scan call starts
    pc,             \* "idle" | "scan" (inside while(true)) | "done" (scan returned)
    valid_symbols,  \* the accepted kinds of the scan call in progress
    pos,            \* the lexer's position (offset of lexer->lookahead)
    token_end,      \* the position of the last mark_end call (when mark_calls > 0)
    has_content,    \* local of scan_raw_text
    handled,        \* the value the scan call returned
    result_symbol,  \* lexer->result_symbol
    symbol_set,     \* the scan call has assigned lexer->result_symbol
    mark_calls,     \* number of mark_end calls made by the scan call
    mark_off,       \* some mark_end call was made away from the start of the scan
    advances,       \* number of advance calls made by the scan call
    iters,          \* number of loop iterations begun by the scan call
    exit,           \* where the scan call returned: "" while it has not, "not_valid",
                    \* "eof", "interpolation" or "closing_tag"
    prev            \* <<r>>, r the summary of the previous completed scan call, else <<>>

vars == <<input, char_signed, raw_text_mode, buffer, ser_of, deser_len, cursor, pc,
          valid_symbols, pos, token_end, has_content, handled, result_symbol,
          symbol_set, mark_calls, mark_off, advances, iters, exit, prev>>

lexer == <<pos, token_end, has_content, handled, result_symbol,
           symbol_set, mark_calls, mark_off, advances, iters, exit>>

persisted == <<raw_text_mode, buffer, ser_of, deser_len>>

(***************************************************************************)
(* Token kinds (enum TokenType).                                           *)
(***************************************************************************)
RAW_TEXT == 0
RAW_TEXT_INTERPOLATION_START == 1
ERROR_SENTINEL == 2

TokenType == {RAW_TEXT, RAW_TEXT_INTERPOLATION_START, ERROR_SENTINEL}

\* lexer->lookahead at end of input
EOF_CHAR == "EOF"

(***************************************************************************)
(* Bounds of the model.                                                    *)
(***************************************************************************)
MaxLen == 3
MaxPre == 1
MaxPost == 1

(***************************************************************************)
(* The lexer interface (TSLexer) over the input.                           *)
(***************************************************************************)
Eof(p) == p >= Len(input)

Lookahead(p) == IF p < Len(input) THEN input[p + 1] ELSE EOF_CHAR

\* advance(lexer): one character forward; no move at end of input
Advance(p) == IF p < Len(input) THEN p + 1 ELSE p

(***************************************************************************)
(* The closing-tag matcher of scan_raw_text.  Each operator takes the      *)
(* position reached so far and gives the position the cursor ends at and   *)
(* whether a closing tag was found.                                        *)
(***************************************************************************)
\* the end-of-name test taking the form feed for a tag end too
IsTagEndOrFormFeed(c) ==
    c = ">" \/ c = " " \/ c = "\t" \/ c = "\n" \/ c = "\r" \/ c = "\f"

\* "Check for end of tag name"
IsTagEnd(c) == c = ">" \/ c = " " \/ c = "\t" \/ c = "\n" \/ c = "\r"

Miss(p) == [pos |-> p, found |-> FALSE]

\* StyleTail with the y compared in lower case only
StyleTailLowerY(p) ==
    LET p1 == Advance(p) IN
    IF Lookahead(p1) = "y" THEN
      LET p2 == Advance(p1) IN
      IF Lookahead(p2) = "l" \/ Lookahead(p2) = "L" THEN
        LET p3 == Advance(p2) IN
        IF Lookahead(p3) = "e" \/ Lookahead(p3) = "E" THEN
          LET p4 == Advance(p3) IN
          [pos |-> p4, found |-> IsTagEnd(Lookahead(p4))]
        ELSE Miss(p3)
      ELSE Miss(p2)
    ELSE Miss(p1)

\* lookahead is t or T: the rest of "style" and the end of the tag name
StyleTail(p) ==
    LET p1 == Advance(p) IN
    IF Lookahead(p1) = "y" \/ Lookahead(p1) = "Y" THEN
      LET p2 == Advance(p1) IN
      IF Lookahead(p2) = "l" \/ Lookahead(p2) = "L" THEN
        LET p3 == Advance(p2) IN
        IF Lookahead(p3) = "e" \/ Lookahead(p3) = "E" THEN
          LET p4 == Advance(p3) IN
          [pos |-> p4, found |-> IsTagEnd(Lookahead(p4))]
        ELSE Miss(p3)
      ELSE Miss(p2)
    ELSE Miss(p1)

\* lookahead is c or C: the rest of "script" and the end of the tag name
ScriptTail(p) ==
    LET p1 == Advance(p) IN
    IF Lookahead(p1) = "r" \/ Lookahead(p1) = "R" THEN
      LET p2 == Advance(p1) IN
      IF Lookahead(p2) = "i" \/ Lookahead(p2) = "I" THEN
        LET p3 == Advance(p2) IN
        IF Lookahead(p3) = "p" \/ Lookahead(p3) = "P" THEN
          LET p4 == Advance(p3) IN
          IF Lookahead(p4) = "t" \/ Lookahead(p4) = "T" THEN
            LET p5 == Advance(p4) IN
            [pos |-> p5, found |-> IsTagEnd(Lookahead(p5))]
          ELSE Miss(p4)
        ELSE Miss(p3)
      ELSE Miss(p2)
    ELSE Miss(p1)

\* "could still be 'style' or 'script'": the letter after S or s decides
StyleOrScript(p) ==
    IF Lookahead(p) = "t" \/ Lookahead(p) = "T" THEN StyleTail(p)
    ELSE IF Lookahead(p) = "c" \/ Lookahead(p) = "C" THEN ScriptTail(p)
    ELSE Miss(p)

\* lookahead is S: SQL first, then style or script from wherever the SQL
\* check stopped
UpperS(p) ==
    LET p1 == Advance(p) IN
    IF Lookahead(p1) = "Q" THEN
      LET p2 == Advance(p1) IN
      IF Lookahead(p2) = "L" THEN
        LET p3 == Advance(p2) IN
        IF IsTagEnd(Lookahead(p3)) THEN [pos |-> p3, found |-> TRUE]
        ELSE StyleOrScript(p3)
      ELSE StyleOrScript(p2)
    ELSE StyleOrScript(p1)

\* lookahead is s: style or script
LowerS(p) == StyleOrScript(Advance(p))

\* the name check consulting the state: with raw_text_mode 2 the names that
\* start with an upper-case S do not close the region
CloseTagNameByMode(p) ==
    IF Lookahead(p) = "S" THEN (IF raw_text_mode = 2 THEN Miss(p) ELSE UpperS(p))
    ELSE IF Lookahead(p) = "s" THEN LowerS(p)
    ELSE Miss(p)

\* the name check made once "</" has been advanced over
CloseTagName(p) ==
    IF Lookahead(p) = "S" THEN UpperS(p)
    ELSE IF Lookahead(p) = "s" THEN LowerS(p)
    ELSE Miss(p)

(***************************************************************************)
(* One iteration of the loop of scan_raw_text, by the branch it takes.     *)
(* Each operator takes the position p and has_content hc at the top of the *)
(* loop and gives: the position reached, the positions of the mark_end     *)
(* calls in order, has_content, how the iteration ends ("continue",        *)
(* "handled" for return true, "declined" for return false) and the kind    *)
(* assigned to result_symbol (<<>> when none is).                          *)
(***************************************************************************)
Outcome(p, m, hc, r, sym) ==
    [pos |-> p, marks |-> m, has_content |-> hc, ret |-> r, symbol |-> sym]

\* AtEof without the test of has_content after the loop: always return false
AtEofDeclines(p, hc) == Outcome(p, <<>>, hc, "declined", <<>>)

\* AtEof returning true without assigning result_symbol
AtEofNoSymbol(p, hc) ==
    IF hc THEN Outcome(p, <<>>, hc, "handled", <<>>)
    ELSE Outcome(p, <<>>, hc, "declined", <<>>)

\* AtEof returning a RawText token even when nothing was scanned
AtEofAlwaysToken(p, hc) == Outcome(p, <<>>, hc, "handled", <<RAW_TEXT>>)

\* if (lexer->eof(lexer)) break; and the code after the loop
AtEof(p, hc) ==
    IF hc THEN Outcome(p, <<>>, hc, "handled", <<RAW_TEXT>>)
    ELSE Outcome(p, <<>>, hc, "declined", <<>>)

\* AtInterpolation without the test of has_content: "@{" always makes an
\* interpolation start
AtInterpolationNoContentCheck(p, hc) ==
    LET p1 == Advance(p) IN
    IF Lookahead(p1) = "{" THEN
      LET p2 == Advance(p1) IN
      Outcome(p2, <<p, p2>>, hc, "handled", <<RAW_TEXT_INTERPOLATION_START>>)
    ELSE Outcome(p1, <<p, p1>>, TRUE, "continue", <<>>)

\* AtInterpolation that goes on after a lone "@" without has_content = true
\* and without mark_end
AtInterpolationDropsAt(p, hc) ==
    LET p1 == Advance(p) IN
    IF Lookahead(p1) = "{" THEN
      IF hc THEN Outcome(p1, <<p>>, hc, "handled", <<RAW_TEXT>>)
      ELSE LET p2 == Advance(p1) IN
           Outcome(p2, <<p, p2>>, hc, "handled", <<RAW_TEXT_INTERPOLATION_START>>)
    ELSE Outcome(p1, <<p>>, hc, "continue", <<>>)

\* AtInterpolation marking the end of the content after the "@" of "@{"
AtInterpolationMarksAfterAt(p, hc) ==
    LET p1 == Advance(p) IN
    IF Lookahead(p1) = "{" THEN
      IF hc THEN Outcome(p1, <<p, p1>>, hc, "handled", <<RAW_TEXT>>)
      ELSE LET p2 == Advance(p1) IN
           Outcome(p2, <<p, p2>>, hc, "handled", <<RAW_TEXT_INTERPOLATION_START>>)
    ELSE Outcome(p1, <<p, p1>>, TRUE, "continue", <<>>)

\* if (c == '@')
AtInterpolation(p, hc) ==
    LET p1 == Advance(p) IN
    IF Lookahead(p1) = "{" THEN
      IF hc THEN Outcome(p1, <<p>>, hc, "handled", <<RAW_TEXT>>)
      ELSE LET p2 == Advance(p1) IN
           Outcome(p2, <<p, p2>>, hc, "handled", <<RAW_TEXT_INTERPOLATION_START>>)
    ELSE Outcome(p1, <<p, p1>>, TRUE, "continue", <<>>)

\* AtAngle without the test of has_content at a closing tag: always a token
AtAngleAlwaysToken(p, hc) ==
    LET p1 == Advance(p) IN
    IF Lookahead(p1) = "/" THEN
      LET r == CloseTagName(Advance(p1)) IN
      IF r.found THEN Outcome(r.pos, <<p>>, hc, "handled", <<RAW_TEXT>>)
      ELSE Outcome(r.pos, <<p, r.pos>>, TRUE, "continue", <<>>)
    ELSE Outcome(p1, <<p, p1>>, TRUE, "continue", <<>>)

\* the '<' branch with a failed closing-tag match leaving has_content as it was
AtAngleMissNoContent(p, hc) ==
    LET p1 == Advance(p) IN
    IF Lookahead(p1) = "/" THEN
      LET r == CloseTagName(Advance(p1)) IN
      IF r.found THEN
        IF hc THEN Outcome(r.pos, <<p>>, hc, "handled", <<RAW_TEXT>>)
        ELSE Outcome(r.pos, <<p>>, hc, "declined", <<>>)
      ELSE Outcome(r.pos, <<p, r.pos>>, hc, "continue", <<>>)
    ELSE Outcome(p1, <<p, p1>>, TRUE, "continue", <<>>)

\* if (c == '<')
AtAngle(p, hc) ==
    LET p1 == Advance(p) IN
    IF Lookahead(p1) = "/" THEN
      LET r == CloseTagName(Advance(p1)) IN
      IF r.found THEN
        IF hc THEN Outcome(r.pos, <<p>>, hc, "handled", <<RAW_TEXT>>)
        ELSE Outcome(r.pos, <<p>>, hc, "declined", <<>>)
      ELSE Outcome(r.pos, <<p, r.pos>>, TRUE, "continue", <<>>)
    ELSE Outcome(p1, <<p, p1>>, TRUE, "continue", <<>>)

\* the last branch without its advance
AtOtherStays(p, hc) == Outcome(p, <<p>>, TRUE, "continue", <<>>)

\* "Any other character is raw text"
AtOther(p, hc) ==
    LET p1 == Advance(p) IN Outcome(p1, <<p1>>, TRUE, "continue", <<>>)

(***************************************************************************)
(* The state byte and its serialization.                                   *)
(***************************************************************************)
\* buffer[0] = scanner->raw_text_mode: a uint8_t stored into a char
ToChar(v) == IF char_signed /\ v >= 128 THEN v - 256 ELSE v

\* (uint8_t)buffer[0]
ToUint8(c) == c % 256

\* serialize: the bytes written and the length returned
Serialize(mode) == [bytes |-> <<ToChar(mode)>>, length |-> 1]

\* deserialize without the cast to uint8_t
DeserializeNoCast(buf, length) == IF length >= 1 THEN buf[1] ELSE 0

\* deserialize: the state value it leaves
Deserialize(buf, length) == IF length >= 1 THEN ToUint8(buf[1]) ELSE 0

\* the controller testing valid_symbols[RAW_TEXT] alone
RawTextValidOnlyRawText(valid) == RAW_TEXT \in valid

\* the test of the controller
RawTextValid(valid) ==
    RAW_TEXT \in valid \/ RAW_TEXT_INTERPOLATION_START \in valid

(***************************************************************************)
(* Actions.                                                                *)
(***************************************************************************)
\* the lexer as the host hands it to a scan call at position c
LexerAt(c) ==
    /\ pos' = c
    /\ token_end' = c
    /\ has_content' = FALSE
    /\ handled' = FALSE
    /\ result_symbol' = RAW_TEXT
    /\ symbol_set' = FALSE
    /\ mark_calls' = 0
    /\ mark_off' = FALSE
    /\ advances' = 0
    /\ iters' = 0
    /\ exit' = ""

\* tree_sitter_parsley_external_scanner_serialize
DoSerialize ==
    /\ pc = "idle"
    /\ LET s == Serialize(raw_text_mode) IN
         buffer' = SubSeq(s.bytes, 1, s.length)
    /\ ser_of' = <<raw_text_mode>>
    /\ deser_len' = <<>>
    /\ UNCHANGED <<input, char_signed, raw_text_mode, cursor, pc, valid_symbols,
                   lexer, prev>>

\* tree_sitter_parsley_external_scanner_deserialize, on the checkpoint buffer
\* or on no bytes at all
DoDeserialize(length) ==
    /\ pc = "idle"
    /\ raw_text_mode' = Deserialize(buffer, length)
    /\ deser_len' = <<length>>
    /\ UNCHANGED <<input, char_signed, buffer, ser_of, cursor, pc, valid_symbols,
                   lexer, prev>>

\* tree_sitter_parsley_external_scanner_scan, up to the call of scan_raw_text
ScanCall(valid) ==
    /\ pc = "idle"
    /\ valid_symbols' = valid
    /\ deser_len' = <<>>
    /\ pc' = IF RawTextValid(valid) THEN "scan" ELSE "done"
    /\ exit' = IF RawTextValid(valid) THEN "" ELSE "not_valid"
    /\ UNCHANGED <<input, char_signed, raw_text_mode, buffer, ser_of, cursor, pos,
                   token_end, has_content, handled, result_symbol, symbol_set,
                   mark_calls, mark_off, advances, iters, prev>>

\* Apply with the scanner recording, when it returns a token, that a raw-text
\* region is open
ApplyWritesMode(o, branch) ==
    /\ pos' = o.pos
    /\ advances' = advances + (o.pos - pos)
    /\ token_end' = IF o.marks = <<>> THEN token_end ELSE o.marks[Len(o.marks)]
    /\ mark_calls' = mark_calls + Len(o.marks)
    /\ mark_off' = (mark_off \/ \E i \in 1..Len(o.marks) : o.marks[i] # cursor)
    /\ has_content' = o.has_content
    /\ pc' = IF o.ret = "continue" THEN "scan" ELSE "done"
    /\ handled' = (o.ret = "handled")
    /\ result_symbol' = IF o.symbol = <<>> THEN result_symbol ELSE o.symbol[1]
    /\ symbol_set' = (symbol_set \/ o.symbol # <<>>)
    /\ exit' = IF o.ret = "continue" THEN "" ELSE branch
    /\ raw_text_mode' = IF o.ret = "handled" THEN 1 ELSE raw_text_mode
    /\ UNCHANGED <<input, char_signed, buffer, ser_of, deser_len, cursor,
                   valid_symbols, prev>>

\* the effect of one loop iteration, taken by the branch named, on the lexer
\* and on the call
Apply(o, branch) ==
    /\ pos' = o.pos
    /\ advances' = advances + (o.pos - pos)
    /\ token_end' = IF o.marks = <<>> THEN token_end ELSE o.marks[Len(o.marks)]
    /\ mark_calls' = mark_calls + Len(o.marks)
    /\ mark_off' = (mark_off \/ \E i \in 1..Len(o.marks) : o.marks[i] # cursor)
    /\ has_content' = o.has_content
    /\ pc' = IF o.ret = "continue" THEN "scan" ELSE "done"
    /\ handled' = (o.ret = "handled")
    /\ result_symbol' = IF o.symbol = <<>> THEN result_symbol ELSE o.symbol[1]
    /\ symbol_set' = (symbol_set \/ o.symbol # <<>>)
    /\ exit' = IF o.ret = "continue" THEN "" ELSE branch
    /\ UNCHANGED <<input, char_signed, persisted, cursor, valid_symbols, prev>>

LoopEof ==
    /\ pc = "scan"
    /\ Eof(pos)
    /\ iters' = iters
    /\ Apply(AtEof(pos, has_content), "eof")

LoopInterpolation ==
    /\ pc = "scan"
    /\ ~Eof(pos)
    /\ Lookahead(pos) = "@"
    /\ iters' = iters + 1
    /\ Apply(AtInterpolation(pos, has_content), "interpolation")

LoopAngle ==
    /\ pc = "scan"
    /\ ~Eof(pos)
    /\ Lookahead(pos) = "<"
    /\ iters' = iters + 1
    /\ Apply(AtAngle(pos, has_content), "closing_tag")

LoopOther ==
    /\ pc = "scan"
    /\ ~Eof(pos)
    /\ Lookahead(pos) # "@"
    /\ Lookahead(pos) # "<"
    /\ iters' = iters + 1
    /\ Apply(AtOther(pos, has_content), "")

\* what the host keeps of a scan call that returned
Summary ==
    [start |-> cursor,
     accepted |-> (RAW_TEXT \in valid_symbols
                     \/ RAW_TEXT_INTERPOLATION_START \in valid_symbols),
     handled |-> handled,
     symbol |-> IF handled THEN result_symbol ELSE RAW_TEXT,
     end |-> IF handled THEN token_end ELSE cursor,
     mode |-> raw_text_mode]

\* the host takes the token and moves to its marked end
HostAccept ==
    /\ pc = "done"
    /\ handled
    /\ prev' = <<Summary>>
    /\ cursor' = token_end
    /\ pc' = "idle"
    /\ valid_symbols' = {}
    /\ LexerAt(token_end)
    /\ UNCHANGED <<input, char_signed, persisted>>

\* the host drops the result (a decline, or a token of a discarded attempt)
\* and stays where the scan started
HostDiscard ==
    /\ pc = "done"
    /\ prev' = <<Summary>>
    /\ pc' = "idle"
    /\ valid_symbols' = {}
    /\ LexerAt(cursor)
    /\ UNCHANGED <<input, char_signed, persisted, cursor>>

Next ==
    \/ DoSerialize
    \/ \E n \in {0, Len(buffer)} : DoDeserialize(n)
    \/ \E valid \in SUBSET TokenType : ScanCall(valid)
    \/ LoopEof
    \/ LoopInterpolation
    \/ LoopAngle
    \/ LoopOther
    \/ HostAccept
    \/ HostDiscard

(***************************************************************************)
(* Inputs.                                                                 *)
(***************************************************************************)
\* all strings over the alphabet A of length at most n
Str(n, A) == UNION {[1..k -> A] : k \in 0..n}

\* the state after tree_sitter_parsley_external_scanner_create (calloc), with
\* the text, the build and the checkpoint bytes the host starts from
InitWith(Inputs, Signs, Buffers) ==
    /\ input \in Inputs
    /\ char_signed \in Signs
    /\ raw_text_mode = 0
    /\ buffer \in Buffers
    /\ ser_of = <<>>
    /\ deser_len = <<>>
    /\ cursor = 0
    /\ pc = "idle"
    /\ valid_symbols = {}
    /\ pos = 0
    /\ token_end = 0
    /\ has_content = FALSE
    /\ handled = FALSE
    /\ result_symbol = RAW_TEXT
    /\ symbol_set = FALSE
    /\ mark_calls = 0
    /\ mark_off = FALSE
    /\ advances = 0
    /\ iters = 0
    /\ exit = ""
    /\ prev = <<>>

\* every upper/lower-case spelling of the three tag names
StyleSpellings ==
    {<<c1, c2, c3, c4, c5>> : c1 \in {"s", "S"}, c2 \in {"t", "T"}, c3 \in {"y", "Y"},
                              c4 \in {"l", "L"}, c5 \in {"e", "E"}}

ScriptSpellings ==
    {<<c1, c2, c3, c4, c5, c6>> : c1 \in {"s", "S"}, c2 \in {"c", "C"}, c3 \in {"r", "R"},
                                  c4 \in {"i", "I"}, c5 \in {"p", "P"}, c6 \in {"t", "T"}}

SqlSpellings == {<<c1, c2, c3>> : c1 \in {"s", "S"}, c2 \in {"q", "Q"}, c3 \in {"l", "L"}}

\* s \o t for every s of S and t of T
Cat(S, T) == {x \o y : x \in S, y \in T}

Alphabet == {"a", "@", "{", "<", "/"}
PreAlphabet == {"a", "@", "<"}
PostAlphabet == {"b"}

\* names put after "</": the three tag names in several spellings, near
\* misses, and other names
Names ==
    {<<"s", "t", "y", "l", "e">>,
     <<"S", "t", "y", "l", "e">>,
     <<"S", "T", "Y", "L", "E">>,
     <<"s", "c", "r", "i", "p", "t">>,
     <<"S", "C", "R", "I", "P", "T">>,
     <<"S", "Q", "L">>,
     <<"s", "q", "l">>,
     <<"S", "q", "l">>,
     <<"S", "Q", "l">>,
     <<"d", "i", "v">>,
     <<"s">>,
     <<"S">>,
     <<"s", "t">>,
     <<"S", "Q">>,
     <<"S", "Q", "t", "y", "l", "e">>,
     <<"S", "Q", "L", "t", "y", "l", "e">>,
     <<"S", "Q", "c", "r", "i", "p", "t">>,
     <<"S", "Q", "L", "c", "r", "i", "p", "t">>,
     <<"s", "t", "y", "l", "e", "s">>,
     <<>>}

\* the vertical tab (TLA+ strings have no escape for it)
VT == "VT"

\* what follows the name: a tag end, a form feed, a vertical tab, or nothing
Terms == {<<">">>, <<" ">>, <<"\t">>, <<"\n">>, <<"\r">>, <<"\f">>, <<VT>>, <<>>}

Posts == Str(MaxPost, PostAlphabet) \cup {<<"@", "{">>, <<"<", "/", "s", "t", "y", "l", "e", ">">>}

\* texts of the documentation and of the tests of the design
Examples ==
    {<<"a", "<", "/", "d", "i", "v", ">", "b", "<", "/", "s", "t", "y", "l", "e", ">">>,
     <<"a", "@", "b", "c">>,
     <<"<", "/", "s", "<", "/", "s", "t", "y", "l", "e", ">">>,
     <<"<", "/", "s", "t", "@", "{">>,
     <<"@", "@", "{">>,
     <<"a", "<", "/", "S", "Q", "t", "y", "l", "e", ">", "b", "<", "/", "S", "Q", "L", ">">>}

\* prefix, "</", name, what follows it, rest
Tagged == Cat(Cat(Cat(Cat(Str(MaxPre, PreAlphabet), {<<"<", "/">>}), Names), Terms), Posts)

Inputs == Str(MaxLen, Alphabet) \cup Tagged \cup Examples

Init == InitWith(Inputs, {TRUE}, {<<>>})

Spec == Init /\ [][Next]_vars

\* every spelling of the three names as a closing tag, after a short prefix
CaseInputs ==
    Cat(Cat(Cat(Str(MaxPre, {"a", "@"}), {<<"<", "/">>}),
            StyleSpellings \cup ScriptSpellings \cup SqlSpellings),
        {<<">">>, <<" ">>, <<"\t">>, <<"\n">>, <<"\r">>})

InitCase == InitWith(CaseInputs, {TRUE}, {<<>>})

SpecCase == InitCase /\ [][Next]_vars

\* the values of a char of either signedness
CharValues(signed) == IF signed THEN (0 - 128)..127 ELSE 0..255

\* one text, every checkpoint byte the host may start from, both builds
InitSer ==
    /\ InitWith({<<"a", "@", "<">>}, BOOLEAN,
                {<<>>} \cup {<<c>> : c \in (0 - 128)..255})
    /\ buffer # <<>> => buffer[1] \in CharValues(char_signed)

SpecSer == InitSer /\ [][Next]_vars

\* short texts and closing tags, with checkpoint bytes that say "in <style>"
\* and "in <script>"
ModeInputs ==
    Str(MaxLen, Alphabet) \cup Examples
      \cup Cat(Cat(Cat(Str(MaxPre, {"a"}), {<<"<", "/">>}),
                  {<<"s", "t", "y", "l", "e">>, <<"S", "C", "R", "I", "P", "T">>,
                   <<"S", "Q", "L">>, <<"s", "q", "l">>, <<"d", "i", "v">>}),
              {<<">">>})

InitMode == InitWith(ModeInputs, {TRUE}, {<<>>, <<1>>, <<2>>})

SpecMode == InitMode /\ [][Next]_vars

\* the scan call runs to its return: the loop is sequential code, so an
\* iteration that can be taken is taken
InitFair == InitWith(ModeInputs, {TRUE}, {<<>>})

SpecFair ==
    InitFair /\ [][Next]_vars
      /\ WF_vars(LoopEof \/ LoopInterpolation \/ LoopAngle \/ LoopOther)

(***************************************************************************)
(* Vocabulary of the properties, stated on the text alone.                 *)
(***************************************************************************)
\* the character at offset i of the input
CharAt(i) == IF i >= 0 /\ i < Len(input) THEN input[i + 1] ELSE EOF_CHAR

Letters ==
    {"a", "b", "c", "d", "e", "i", "l", "p", "q", "r", "s", "t", "v", "y",
     "C", "E", "I", "L", "P", "Q", "R", "S", "T", "Y"}

\* the characters that end a tag name
TagEndChars == {">", " ", "\t", "\n", "\r"}

\* style and script in any letter case, SQL in upper case only
RecognizedNames == StyleSpellings \cup ScriptSpellings \cup {<<"S", "Q", "L">>}

\* the characters from offset p on spell n
SpelledAt(p, n) == \A i \in 1..Len(n) : CharAt(p + i - 1) = n[i]

SlashAt(p) == CharAt(p) = "<" /\ CharAt(p + 1) = "/"

\* "</", a name of the set, a tag end
TagOfAt(p, names) ==
    /\ SlashAt(p)
    /\ \E n \in names : SpelledAt(p + 2, n) /\ CharAt(p + 2 + Len(n)) \in TagEndChars

\* a recognized closing tag starts at offset p
ClosingTagAt(p) == TagOfAt(p, RecognizedNames)

\* "</" followed by a name (a run of letters) that is not a recognized name
OtherNameAt(p) ==
    /\ SlashAt(p)
    /\ ~\E n \in RecognizedNames :
          SpelledAt(p + 2, n) /\ CharAt(p + 2 + Len(n)) \notin Letters

\* the interpolation trigger starts at offset p
TriggerAt(p) == CharAt(p) = "@" /\ CharAt(p + 1) = "{"

\* the text from offset a up to offset b has no trigger and no closing tag
Clean(a, b) == \A q \in a..(b - 1) : ~TriggerAt(q) /\ ~ClosingTagAt(q)

\* the scan call has returned and one of the two raw-text kinds was accepted
Accepted ==
    RAW_TEXT \in valid_symbols \/ RAW_TEXT_INTERPOLATION_START \in valid_symbols

Returned == pc = "done" /\ Accepted

\* the call returned a RawText token that ends at offset p
RawTextTo(p) == handled /\ result_symbol = RAW_TEXT /\ token_end = p

\* the call stopped at offset p: a RawText token ends there, or it declined there
StoppedAt(p) == RawTextTo(p) \/ (~handled /\ cursor = p)

\* the previous call started at offset a and returned a RawText token whose
\* end is where this call started
AfterRawTextFrom(a) ==
    /\ prev # <<>>
    /\ prev[1].accepted /\ prev[1].handled /\ prev[1].symbol = RAW_TEXT
    /\ prev[1].start = a /\ prev[1].end = cursor

(***************************************************************************)
(* C1: content, then a recognized closing tag: scanned from the beginning  *)
(* with RawText accepted, the call returns a RawText token that ends at    *)
(* the "<" of the closing tag, when the content is not empty and has no    *)
(* "@{" and no recognized closing tag; a second call started at that end   *)
(* declines.                                                               *)
(***************************************************************************)
C1_ContentThenClosingTag ==
    /\ (pc = "done" /\ RAW_TEXT \in valid_symbols /\ cursor = 0) =>
         \A p \in 1..Len(input) : (ClosingTagAt(p) /\ Clean(0, p)) => RawTextTo(p)
    /\ (pc = "done" /\ RAW_TEXT \in valid_symbols /\ cursor >= 1 /\ AfterRawTextFrom(0)
          /\ ClosingTagAt(cursor) /\ Clean(0, cursor)) => ~handled

(***************************************************************************)
(* C2: "</", name, tag end stops the scan for every spelling of style and  *)
(* of script and for SQL in upper case: no token goes past it, a call      *)
(* started at it declines, and plain content before it makes a RawText     *)
(* token that ends at it.  A spelling of SQL with a lower-case letter does *)
(* not stop the scan: no call stops at it, and a call started at it        *)
(* returns a token that contains all of it.                                *)
(***************************************************************************)
\* only characters that start no pattern from offset a up to offset b
Plain(a, b) == \A q \in a..(b - 1) : CharAt(q) # "@" /\ CharAt(q) # "<"

C2_CaseRules ==
    Returned =>
      \A p \in cursor..Len(input) :
        /\ ClosingTagAt(p) =>
             /\ handled => token_end <= p
             /\ p = cursor => ~handled
             /\ (p > cursor /\ Plain(cursor, p)) => RawTextTo(p)
        /\ TagOfAt(p, SqlSpellings \ {<<"S", "Q", "L">>}) =>
             /\ ~StoppedAt(p)
             /\ p = cursor => (handled /\ result_symbol = RAW_TEXT /\ token_end >= p + 6)

\* a call that met a closing tag in a mixed-case spelling after content
C2_Witness ==
    /\ Returned
    /\ \E p \in (cursor + 1)..Len(input) :
         /\ RawTextTo(p)
         /\ TagOfAt(p, {<<"S", "T", "y", "L", "e">>, <<"s", "C", "r", "I", "p", "T">>})

(***************************************************************************)
(* C3: "</" followed by a name that is not a recognized name does not stop *)
(* the scan: no RawText token ends at its "<" and no call declines there.  *)
(* The text a</div>b</style> gives one RawText token over a</div>b, and    *)
(* the next call declines.                                                 *)
(***************************************************************************)
DivExample ==
    <<"a", "<", "/", "d", "i", "v", ">", "b", "<", "/", "s", "t", "y", "l", "e", ">">>

C3_OtherNameIsContent ==
    /\ Returned => \A p \in cursor..Len(input) : OtherNameAt(p) => ~StoppedAt(p)
    /\ (Returned /\ input = DivExample /\ cursor = 0) => RawTextTo(8)
    /\ (Returned /\ input = DivExample /\ cursor = 8) => ~handled

(***************************************************************************)
(* C4: a call started at "@{" returns RawTextInterpolationStart with the   *)
(* token end two characters after the start.  A call that comes to "@{"    *)
(* after content returns RawText with the token end at the "@"; no RawText *)
(* token goes past a "@{"; the next call, started at that end, returns     *)
(* RawTextInterpolationStart.                                              *)
(***************************************************************************)
C4_InterpolationTrigger ==
    Returned =>
      /\ TriggerAt(cursor) =>
           /\ handled /\ result_symbol = RAW_TEXT_INTERPOLATION_START
           /\ token_end = cursor + 2
      /\ \A q \in (cursor + 1)..Len(input) :
           TriggerAt(q) =>
             /\ (handled /\ result_symbol = RAW_TEXT) => token_end <= q
             /\ pos > q => (RawTextTo(q) /\ exit = "interpolation")
      /\ (\E a \in 0..cursor : AfterRawTextFrom(a) /\ TriggerAt(cursor)) =>
           (handled /\ result_symbol = RAW_TEXT_INTERPOLATION_START)

\* the second of two calls: the first gave RawText up to the "@", this one
\* gives the interpolation start
C4_Witness ==
    /\ Returned
    /\ \E a \in 0..(cursor - 1) : AfterRawTextFrom(a)
    /\ TriggerAt(cursor)
    /\ handled /\ result_symbol = RAW_TEXT_INTERPOLATION_START
    /\ token_end = cursor + 2

(***************************************************************************)
(* C5: a call started at a recognized closing tag declines; it returns no  *)
(* empty RawText token there.                                              *)
(***************************************************************************)
C5_DeclineAtClosingTag ==
    (Returned /\ ClosingTagAt(cursor)) =>
       (~handled /\ exit = "closing_tag" /\ ~has_content)

C5_Witness == Returned /\ ClosingTagAt(cursor) /\ ~handled /\ mark_calls = 1

(***************************************************************************)
(* C6: a call that declines has made every mark_end call at the position   *)
(* it started at, on each of the three ways to decline.                    *)
(***************************************************************************)
C6_DeclineConsumesNothing ==
    (pc = "done" /\ ~handled) =>
       /\ ~mark_off
       /\ mark_calls > 0 => token_end = cursor
       /\ exit \in {"not_valid", "eof", "closing_tag"}
       /\ exit = "not_valid" => (mark_calls = 0 /\ pos = cursor)
       /\ exit = "eof" => (mark_calls = 0 /\ pos = cursor)
       /\ exit = "closing_tag" => mark_calls = 1

\* a decline at a closing tag: mark_end was called, at the start
C6_Witness ==
    pc = "done" /\ ~handled /\ exit = "closing_tag" /\ mark_calls = 1 /\ pos > cursor

(***************************************************************************)
(* C7: a call that comes to the end of input declines when it has no       *)
(* content and returns a RawText token up to the end of input otherwise;   *)
(* so a call on a non-empty rest of input without "@{" and without a       *)
(* recognized closing tag returns one RawText token over all of it.        *)
(***************************************************************************)
C7_EndOfInput ==
    /\ (Returned /\ exit = "eof") =>
         IF has_content THEN RawTextTo(Len(input)) ELSE ~handled
    /\ (Returned /\ cursor < Len(input) /\ Clean(cursor, Len(input))) =>
         RawTextTo(Len(input))

(***************************************************************************)
(* C8: a "@" that is not followed by "{" is content: a call that comes to  *)
(* it returns a RawText token that contains it, and goes on at the next    *)
(* character (a trigger right after it ends the token there).  The text    *)
(* a@bc gives one RawText token over its four characters.                  *)
(***************************************************************************)
C8_LoneAtIsContent ==
    Returned =>
      /\ \A q \in cursor..(Len(input) - 1) :
           (CharAt(q) = "@" /\ ~TriggerAt(q) /\ pos > q) =>
              /\ handled /\ result_symbol = RAW_TEXT /\ token_end >= q + 1
              /\ TriggerAt(q + 1) => token_end = q + 1
      /\ (input = <<"a", "@", "b", "c">> /\ cursor = 0) => RawTextTo(4)

\* "@" as the last character, and the first "@" of "@@{"
C8_Witness ==
    /\ Returned /\ handled
    /\ \/ CharAt(Len(input) - 1) = "@" /\ token_end = Len(input) /\ Len(input) >= 2
       \/ CharAt(cursor) = "@" /\ TriggerAt(cursor + 1) /\ token_end = cursor + 1

(***************************************************************************)
(* C9: with neither raw-text kind accepted the scan declines without any   *)
(* advance or mark_end call; with one of them accepted the raw-text        *)
(* scanner runs and its result is returned, the same whichever kind is the *)
(* accepted one.                                                           *)
(***************************************************************************)
C9_Controller ==
    pc = "done" =>
      /\ ~Accepted =>
           /\ ~handled /\ exit = "not_valid"
           /\ advances = 0 /\ mark_calls = 0 /\ iters = 0 /\ pos = cursor
      /\ Accepted =>
           /\ exit \in {"eof", "interpolation", "closing_tag"}
           /\ (cursor < Len(input) /\ CharAt(cursor) # "<") => handled
           /\ (prev # <<>> /\ prev[1].accepted /\ prev[1].start = cursor) =>
                /\ prev[1].handled = handled
                /\ handled => (prev[1].symbol = result_symbol /\ prev[1].end = token_end)

\* a token returned with RawTextInterpolationStart the only accepted kind,
\* after the same token with RawText the only accepted kind
C9_Witness ==
    /\ pc = "done" /\ valid_symbols = {RAW_TEXT_INTERPOLATION_START} /\ handled
    /\ result_symbol = RAW_TEXT
    /\ prev # <<>> /\ prev[1].accepted /\ prev[1].start = cursor /\ prev[1].handled

(***************************************************************************)
(* C10: serialize writes one byte; deserialize of the bytes serialize      *)
(* wrote gives back the state value serialized, for every value of the     *)
(* byte; deserialize of no bytes gives the initial state 0.                *)
(***************************************************************************)
C10_RoundTrip ==
    /\ ser_of # <<>> => Len(buffer) = 1
    /\ (deser_len # <<>> /\ deser_len[1] >= 1 /\ ser_of # <<>>) =>
         raw_text_mode = ser_of[1]
    /\ (deser_len # <<>> /\ deser_len[1] = 0) => raw_text_mode = 0
    /\ raw_text_mode \in 0..255

\* the state 200, restored from the negative char that serialize stored
C10_Witness ==
    /\ ser_of = <<200>> /\ deser_len = <<1>> /\ raw_text_mode = 200
    /\ char_signed /\ buffer[1] < 0

(***************************************************************************)
(* C11: a scan call leaves the state byte as it was: raw_text_mode changes *)
(* only in a deserialize call.  A call made again at the same position     *)
(* with the raw-text kinds accepted (or not) as before gives the same      *)
(* result as the call before it.                                           *)
(***************************************************************************)
SameAsPrev ==
    /\ prev[1].handled = handled
    /\ handled => (prev[1].symbol = result_symbol /\ prev[1].end = token_end)

C11_Rescan ==
    (pc = "done" /\ prev # <<>> /\ prev[1].start = cursor
       /\ prev[1].accepted = Accepted) => SameAsPrev

C11_OnlyDeserializeWrites ==
    raw_text_mode' # raw_text_mode => (pc = "idle" /\ pc' = "idle" /\ deser_len' # <<>>)

C11_ScanKeepsState == [](C11_Rescan) /\ [][C11_OnlyDeserializeWrites]_vars

\* the same token twice at one position, with the state byte at 2 before and
\* after both calls
C11_Witness ==
    /\ pc = "done" /\ handled /\ raw_text_mode = 2
    /\ prev # <<>> /\ prev[1].start = cursor /\ prev[1].handled /\ prev[1].mode = 2
    /\ prev[1].end = token_end

(***************************************************************************)
(* C12: a scan call that returns a token has assigned the kind during the  *)
(* call, to RawText or to RawTextInterpolationStart; never to the reserved *)
(* kind, whatever kinds are accepted.                                      *)
(***************************************************************************)
C12_KindIsSet ==
    /\ (pc = "done" /\ handled) =>
         /\ symbol_set
         /\ result_symbol \in {RAW_TEXT, RAW_TEXT_INTERPOLATION_START}
    /\ result_symbol # ERROR_SENTINEL

\* a token returned with all three kinds accepted
C12_Witness ==
    pc = "done" /\ handled /\ valid_symbols = TokenType /\ exit = "eof"

(***************************************************************************)
(* C13: a recognized name after "</" makes a closing tag exactly when the  *)
(* character right after the name ends a tag name.  The name is the run of *)
(* letters after "</".  As first stated, the characters that end a tag     *)
(* name are ">" and every whitespace character, form feed and vertical tab *)
(* included; as amended they are ">", space, tab, line feed and carriage   *)
(* return, and a form feed, a vertical tab, any other character that is no *)
(* letter, or the end of input after the name make the sequence content.   *)
(***************************************************************************)
WhitespaceChars == {" ", "\t", "\n", "\r", "\f", VT}

\* with ends the set of characters that end a tag name: "</" + recognized
\* name + one of them stops the scan, anything else after the name does not
TagEndsAre(ends) ==
    Returned =>
      \A p \in cursor..Len(input) :
        SlashAt(p) =>
          \A n \in RecognizedNames :
            SpelledAt(p + 2, n) =>
              LET c == CharAt(p + 2 + Len(n)) IN
              /\ c \in ends =>
                   /\ handled => token_end <= p
                   /\ p = cursor => ~handled
              /\ (c \notin ends /\ c \notin Letters) =>
                   /\ ~StoppedAt(p)
                   /\ p = cursor => (RawTextTo(token_end) /\ token_end >= p + 2 + Len(n))

FailedAttemptStep ==
    (pc = "scan" /\ pc' = "scan" /\ CharAt(pos) = "<") =>
      /\ has_content'
      /\ mark_calls' > mark_calls /\ token_end' = pos'
      /\ pos' > pos
      /\ \A i \in (pos + 1)..(pos' - 1) : CharAt(i) \notin {"<", "@"}
      /\ SlashAt(pos) => pos' >= pos + 2

FailedAttemptExamples ==
    (Returned /\ cursor = 0) =>
      /\ input = <<"<", "/", "s", "<", "/", "s", "t", "y", "l", "e", ">">> => RawTextTo(3)
      /\ input = <<"<", "/", "s", "t", "@", "{">> => RawTextTo(4)

C14_FailedAttemptIsContent == [](FailedAttemptExamples) /\ [][FailedAttemptStep]_vars

\* the call on "</s</style>" has returned the token "</s"
C14_Witness ==
    /\ Returned /\ cursor = 0 /\ RawTextTo(3)
    /\ input = <<"<", "/", "s", "<", "/", "s", "t", "y", "l", "e", ">">>

(***************************************************************************)
(* C15: the result of a scan call does not depend on raw_text_mode.  A     *)
(* call at the same offset of the same input with the same acceptance and  *)
(* a different state value gives the same result (Handled or Declined,     *)
(* kind, marked end); and whatever the state value, a closing tag of any   *)
(* of the recognized names stops the scan: no token reaches past its "<"   *)
(* and a call that starts at it declines.                                  *)
(***************************************************************************)
OtherModeBefore ==
    /\ prev # <<>>
    /\ prev[1].start = cursor
    /\ prev[1].accepted = Accepted
    /\ prev[1].mode # raw_text_mode

C15_ModeIndependent ==
    /\ (pc = "done" /\ OtherModeBefore) => SameAsPrev
    /\ Returned =>
         \A p \in cursor..Len(input) :
           ClosingTagAt(p) =>
             /\ handled => token_end <= p
             /\ p = cursor => ~handled

\* "a</SQL>" scanned with the state at 0 and then at 2: the token "a" both times
C15_Witness ==
    /\ Returned /\ OtherModeBefore /\ raw_text_mode = 2
    /\ cursor = 0 /\ RawTextTo(1) /\ prev[1].handled /\ prev[1].end = 1
    /\ TagOfAt(1, {<<"S", "Q", "L">>})

(***************************************************************************)
(* C16: every scan call terminates.  A call that has started returns; an   *)
(* iteration that does not return advances by at least one character; the  *)
(* position never passes the end of the input and the iterations made are  *)
(* never more than the characters advanced over, so never more than the    *)
(* characters of the input.                                                *)
(***************************************************************************)
IterationAdvances == (pc = "scan" /\ pc' = "scan") => pos' > pos

IterationsBounded ==
    /\ pos <= Len(input)
    /\ iters <= pos - cursor
    /\ iters <= Len(input)

C16_Terminates ==
    /\ (pc = "scan") ~> (pc = "done")
    /\ [](IterationsBounded)
    /\ [][IterationAdvances]_vars

\* a call that made as many iterations as the input has characters
C16_Witness ==
    /\ pc = "done" /\ exit = "eof" /\ cursor = 0
    /\ Len(input) >= MaxLen /\ iters = Len(input)

(***************************************************************************)
(* C17: when a call returns Handled, the position reached is at most 8     *)
(* characters past the final marked token end (8 is the length of          *)
(* "</script", the longest "</" + recognized name).                        *)
(***************************************************************************)
C17_LookaheadBounded ==
    (pc = "done" /\ handled) => pos - token_end <= 8

(***************************************************************************)
(* C18: every Handled result has a non-empty span: the final marked token  *)
(* end is strictly after the offset the call started at, and not past the  *)
(* end of the input.  So the host's position never decreases, changes only *)
(* when the host takes a Handled token, then grows strictly and stays      *)
(* within the input: a host that calls again at the marked end takes at    *)
(* most as many tokens as the input has characters before a decline or the *)
(* end of input, and never takes a zero-width token.                       *)
(***************************************************************************)
NonEmptySpan ==
    /\ cursor <= Len(input)
    /\ (pc = "done" /\ handled) =>
         /\ mark_calls > 0
         /\ cursor < token_end /\ token_end <= Len(input)
    /\ (prev # <<>> /\ prev[1].handled) => prev[1].start < prev[1].end

HostProgress ==
    cursor' # cursor =>
      /\ pc = "done" /\ handled /\ cursor' = token_end
      /\ cursor < cursor' /\ cursor' <= Len(input)
      /\ Len(input) - cursor' < Len(input) - cursor

C18_Progress == [](NonEmptySpan) /\ [][HostProgress]_vars

\* "a@{": the host took the token "a" and the next call, made at its end,
\* returned the interpolation start
C18_Witness ==
    /\ Returned /\ handled /\ cursor = 1 /\ token_end = 3
    /\ prev # <<>> /\ prev[1].handled /\ prev[1].start = 0 /\ prev[1].end = cursor
    /\ result_symbol = RAW_TEXT_INTERPOLATION_START

(***************************************************************************)
(* C19: every RawText token is clean and maximal.  Its span has no "@{"    *)
(* and no "</" + recognized name + tag end, and it ends at the end of the  *)
(* input, at the "@" of an "@{", or at the "<" of a "</" + name that the   *)
(* matcher accepts, according to the way the call returned; it never ends  *)
(* anywhere else.                                                          *)
(***************************************************************************)
\* the matcher accepts the closing-tag sequence that starts at offset p
MatcherAcceptsAt(p) == SlashAt(p) /\ CloseTagName(p + 2).found

C19_CleanMaximal ==
    (Returned /\ handled /\ result_symbol = RAW_TEXT) =>
      /\ cursor < token_end
      /\ Clean(cursor, token_end)
      /\ \/ exit = "eof" /\ token_end = Len(input)
         \/ exit = "interpolation" /\ TriggerAt(token_end)
         \/ exit = "closing_tag" /\ MatcherAcceptsAt(token_end)

\* "a</div>b</style>": the token ends at the "<" of "</style>", after "</div>"
C19_Witness ==
    /\ Returned /\ cursor = 0 /\ RawTextTo(8) /\ exit = "closing_tag"
    /\ SlashAt(1) /\ MatcherAcceptsAt(8) /\ Len(input) = 16

====
